---- MODULE Spec2Model ----
(***************************************************************************)
(* Model of the hpe_nimble_acr Ansible module: main() dispatches on the    *)
(* requested state to create_acr (create / present) or delete_acr          *)
(* (absent); both reconcile one access control record (ACR) of a volume    *)
(* against the array through the NimOS client.  Every remote call of the   *)
(* client is one step of the model, so the order of the calls, the calls   *)
(* that are never issued and the exceptions they raise are all visible.    *)
(***************************************************************************)
EXTENDS Integers, Sequences, FiniteSets, TLC

\* ------------------------------------------------------------------ bounds
\* Number of ACR identifiers the array hands out before create is refused.
MaxIds == 2
\* Largest LUN a task may ask for.
MaxLun == 1

\* ------------------------------------------------------------ python values
\* Python's None for a name (str) parameter.
None == "None"
\* An optional non-string value is the empty set (None) or a singleton.
Nil == {}
Some(v) == {v}

\* ---------------------------------------------------------------- the array
\* What the array holds besides ACRs does not change during a run.
IgOnArray == {"ig1", "ig2"}
VolOnArray == {"v1"}
ChapOnArray == {"chap1"}
PeOnArray == {"pe1"}
SnapOnArray == {"snap1"}

\* The identifier the array gave an object: never equal to its name.
IdOf(name) ==
    CASE name = "ig1" -> "ig-01"
      [] name = "ig2" -> "ig-02"
      [] name = "v1" -> "vol-01"
      [] name = "chap1" -> "chap-01"
      [] name = "pe1" -> "pe-01"
      [] name = "snap1" -> "snap-01"
      [] OTHER -> "no-id"

\* The keyword arguments main() hands to create_acr.
AttrNames == {"apply_to", "chap_user_id", "lun", "pe_id", "snap_id", "pe_ids"}

\* ------------------------------------------------------------ task inputs
States == {"create", "present", "absent"}
\* v2, ig3 and chap2 are names the array does not know; "" is an empty name.
VolumeInputs == {None, "", "v1", "v2"}
InitiatorGroupInputs == {None, "ig1", "ig2", "ig3"}
LunInputs == {Nil} \cup {Some(n) : n \in 1..MaxLun}
\* The optional attributes of a task: apply_to defaults to "both".
AttrInputs ==
    {[apply_to |-> "both", chap_user |-> None, lun |-> l, pe_ids |-> Nil,
      protocol_endpoint |-> None, snapshot |-> None] : l \in LunInputs}
    \cup
    {[apply_to |-> "volume", chap_user |-> "chap1", lun |-> Nil,
      pe_ids |-> Some(<<"pe-01">>), protocol_endpoint |-> "pe1", snapshot |-> "snap1"],
     [apply_to |-> "both", chap_user |-> "chap2", lun |-> Nil, pe_ids |-> Nil,
      protocol_endpoint |-> None, snapshot |-> None]}

NoParams ==
    [state |-> "none", volume |-> None, initiator_group |-> None, apply_to |-> "both",
     chap_user |-> None, lun |-> Nil, pe_ids |-> Nil, protocol_endpoint |-> None,
     snapshot |-> None]

\* The tasks: a create / present task names any of the attributes, an absent
\* task names the volume alone (as the module's examples do).
ModuleParams ==
    {[state |-> s, volume |-> v, initiator_group |-> g, apply_to |-> a.apply_to,
      chap_user |-> a.chap_user, lun |-> a.lun, pe_ids |-> a.pe_ids,
      protocol_endpoint |-> a.protocol_endpoint, snapshot |-> a.snapshot] :
        s \in {"create", "present"}, v \in VolumeInputs, g \in InitiatorGroupInputs,
        a \in AttrInputs}
    \cup
    {[NoParams EXCEPT !.state = "absent", !.volume = v] : v \in VolumeInputs}

\* --------------------------------------------------------------- utilities
\* utils.is_null_or_empty on a name.
is_null_or_empty(name) == name = None \/ name = ""

\* The keyword arguments with none of them given.
NoArgs == [f \in AttrNames |-> Nil]

\* utils.remove_null_args: only the arguments that are not null are passed on.
remove_null_args(kwargs) ==
    [f \in {g \in AttrNames : kwargs[g] # Nil} |-> kwargs[f]]

\* utils.remove_unchanged_or_null_args: also drops the arguments that equal
\* the value the existing record holds.
remove_unchanged_or_null_args(acr, kwargs) ==
    [f \in {g \in AttrNames : kwargs[g] # Nil /\ kwargs[g] # acr.attrs[g]} |-> kwargs[f]]

\* ------------------------------------------------------- result triples
\* (return_status, changed, msg): the messages are named by what they say.
Triple(ok, changed, msg) == [ok |-> ok, changed |-> changed, msg |-> msg]

\* create_acr, line 137 and line 139: a required name is missing.
NoInitiatorGroupProvided == Triple(FALSE, FALSE, "creation failed: no initiator group provided")
NoVolumeProvided == Triple(FALSE, FALSE, "creation failed: no volume name provided")
\* create_acr, line 145 and line 148: a name the array does not know.
\* Mutant: a missing initiator group is reported as a missing volume.
InitiatorGroupNotPresentAsVolume == Triple(FALSE, FALSE, "volume not present on array")
InitiatorGroupNotPresent == Triple(FALSE, FALSE, "initiator group not present on array")
VolumeNotPresent == Triple(FALSE, FALSE, "volume not present on array")
\* create_acr, line 159, 163 and 164.
Created == Triple(TRUE, TRUE, "created")
\* Mutant: a record that is already there is reported as a change.
AlreadyPresentChanged == Triple(TRUE, TRUE, "already present")
AlreadyPresent == Triple(TRUE, FALSE, "already present")
CannotCreate == Triple(FALSE, FALSE, "cannot be created as it is already present")
\* Mutant: the except clause reports a change.
CreationFailedChanged == Triple(FALSE, TRUE, "creation failed | ex")
\* create_acr, line 166: the except clause.
CreationFailed == Triple(FALSE, FALSE, "creation failed | ex")
\* delete_acr, line 174, 179, 184, 186 and 188.
NoVolumeProvidedDelete == Triple(FALSE, FALSE, "deletion failed: no volume name provided")
VolumeNotPresentDelete == Triple(FALSE, FALSE, "volume not present on array")
\* Mutants: a delete that reports no change; an absent record treated as an error.
DeletedUnchanged == Triple(TRUE, FALSE, "deleted")
NotPresentDeleteFailed == Triple(FALSE, FALSE, "cannot be deleted as it is not present")
Deleted == Triple(TRUE, TRUE, "deleted")
NotPresentDelete == Triple(TRUE, FALSE, "cannot be deleted as it is not present")
DeletionFailed == Triple(FALSE, FALSE, "deletion failed | ex")

\* ------------------------------------------------------------------- state
\* One task run (one call of main) per process; the array is shared.
Procs == {1, 2}

VARIABLES
    acrs,       \* the array's access control records
    nextId,     \* the next ACR identifier the array hands out
    pc,         \* where each run stands
    inp,        \* module.params of the run
    kw,         \* the keyword arguments main resolved so far
    ig_resp,    \* create_acr's ig_resp (Nil is None)
    vol_resp,   \* vol_resp of create_acr / delete_acr
    acr_resp,   \* acr_resp of create_acr / delete_acr
    result,     \* the triple create_acr / delete_acr returned (Nil: none yet)
    exit,       \* how main ended: exit_json, fail_json or a traceback
    calls,      \* the remote calls the run issued, in order
    created,    \* the arguments of the run's create calls
    deleted,    \* the arguments of the run's delete calls
    raised,     \* whether a remote call of the run raised
    first,      \* on a re-run of the same task: the result of the run before
    acrs0,      \* the array's ACRs when the run started
    acrsBefore  \* on a re-run: the array's ACRs when the run before started

remote == <<acrs, nextId>>
locals == <<inp, kw, ig_resp, vol_resp, acr_resp>>
outcome == <<result, exit>>
trace == <<calls, created, deleted, raised>>
history == <<first, acrs0, acrsBefore>>
vars == <<acrs, nextId, pc, inp, kw, ig_resp, vol_resp, acr_resp, result, exit,
          calls, created, deleted, raised, first, acrs0, acrsBefore>>

\* The value the array gives an attribute the create call did not carry.
ServerDefault(f) ==
    CASE f = "apply_to" -> Some("both")
      [] f = "lun" -> Some(0)
      [] OTHER -> Nil

\* A record the array may hold before the first task: v1 granted to ig1.
Preexisting ==
    [id |-> 0, initiator_group_id |-> IdOf("ig1"), vol_id |-> IdOf("v1"),
     attrs |-> [f \in AttrNames |-> ServerDefault(f)]]

Init ==
    /\ acrs \in {{}, {Preexisting}}
    /\ nextId = 1
    /\ pc = [p \in Procs |-> "idle"]
    /\ inp = [p \in Procs |-> NoParams]
    /\ kw = [p \in Procs |-> NoArgs]
    /\ ig_resp = [p \in Procs |-> Nil]
    /\ vol_resp = [p \in Procs |-> Nil]
    /\ acr_resp = [p \in Procs |-> Nil]
    /\ result = [p \in Procs |-> Nil]
    /\ exit = [p \in Procs |-> "running"]
    /\ calls = [p \in Procs |-> <<>>]
    /\ created = [p \in Procs |-> <<>>]
    /\ deleted = [p \in Procs |-> <<>>]
    /\ raised = [p \in Procs |-> FALSE]
    /\ first = [p \in Procs |-> Nil]
    /\ acrs0 = [p \in Procs |-> {}]
    /\ acrsBefore = [p \in Procs |-> {}]

\* ------------------------------------------------------- the client's calls
\* A remote call returns or raises.
CallOutcomes == {"returns", "raises"}

\* initiator_groups.get / volumes.get / chap_users.get / ... by name: the
\* object as the array holds it, or None.
Lookup(onArray, name) ==
    IF name \in onArray THEN Some([id |-> IdOf(name), name |-> name]) ELSE Nil

\* The ACRs access_control_records.get(vol_name=...) can answer with: the
\* client returns one record of the volume, whichever the array lists first.
VolumeAcrs(store, volume) == {a \in store : a.vol_id = IdOf(volume)}
AcrsOfVolume(volume) == VolumeAcrs(acrs, volume)

\* The record the array stores for a create call.
NewAcr(id, args) ==
    [id |-> id, initiator_group_id |-> args.initiator_group_id, vol_id |-> args.vol_id,
     attrs |-> [f \in AttrNames |->
                  IF f \in DOMAIN args.params THEN args.params[f] ELSE ServerDefault(f)]]

\* ----------------------------------------------------------------- helpers
\* The run issues the remote call op, which returns or raises.
Issue(p, op, o) ==
    /\ calls' = [calls EXCEPT ![p] = Append(@, op)]
    /\ raised' = [raised EXCEPT ![p] = @ \/ o = "raises"]

\* create_acr / delete_acr hands its triple back to main.
Return(p, triple) ==
    /\ result' = [result EXCEPT ![p] = Some(triple)]
    /\ pc' = [pc EXCEPT ![p] = "returned"]
    /\ exit' = exit

\* An exception leaves main: the task ends in a traceback, with no triple.
Unhandled(p) ==
    /\ pc' = [pc EXCEPT ![p] = "crashed"]
    /\ exit' = [exit EXCEPT ![p] = "traceback"]
    /\ result' = result

Goto(p, label) ==
    /\ pc' = [pc EXCEPT ![p] = label]
    /\ UNCHANGED outcome

\* Mutant: the two branches of main are swapped.
DispatchSwapped(state) ==
    IF state = "create" \/ state = "present" THEN "delete_acr" ELSE "get_chap_user_id"

\* Where main goes with the requested state (lines 276 and 289).
Dispatch(state) ==
    IF state = "create" \/ state = "present" THEN "get_chap_user_id" ELSE "delete_acr"

\* ------------------------------------------------------------------- main
\* A fresh run of main reads its parameters and sets the defaults.
Begin(p, params) ==
    /\ inp' = [inp EXCEPT ![p] = params]
    /\ kw' = [kw EXCEPT ![p] =
                [NoArgs EXCEPT !["apply_to"] = Some(params.apply_to),
                               !["lun"] = params.lun,
                               !["pe_ids"] = params.pe_ids]]
    /\ ig_resp' = [ig_resp EXCEPT ![p] = Nil]
    /\ vol_resp' = [vol_resp EXCEPT ![p] = Nil]
    /\ acr_resp' = [acr_resp EXCEPT ![p] = Nil]
    /\ result' = [result EXCEPT ![p] = Nil]
    /\ exit' = [exit EXCEPT ![p] = "running"]
    /\ calls' = [calls EXCEPT ![p] = <<>>]
    /\ created' = [created EXCEPT ![p] = <<>>]
    /\ deleted' = [deleted EXCEPT ![p] = <<>>]
    /\ raised' = [raised EXCEPT ![p] = FALSE]
    /\ acrs0' = [acrs0 EXCEPT ![p] = acrs]
    /\ pc' = [pc EXCEPT ![p] = Dispatch(params.state)]
    /\ UNCHANGED remote

\* main, lines 244-276: a task is run with new parameters.
Main(p) ==
    /\ pc[p] = "idle"
    /\ \E params \in ModuleParams : Begin(p, params)
    /\ first' = [first EXCEPT ![p] = Nil]
    /\ acrsBefore' = [acrsBefore EXCEPT ![p] = {}]

\* The process of a task that ended is gone, and so is all it held.
ProcessEnd(p) ==
    /\ pc[p] \in {"exited", "crashed"}
    /\ pc' = [pc EXCEPT ![p] = "idle"]
    /\ inp' = [inp EXCEPT ![p] = NoParams]
    /\ kw' = [kw EXCEPT ![p] = NoArgs]
    /\ ig_resp' = [ig_resp EXCEPT ![p] = Nil]
    /\ vol_resp' = [vol_resp EXCEPT ![p] = Nil]
    /\ acr_resp' = [acr_resp EXCEPT ![p] = Nil]
    /\ result' = [result EXCEPT ![p] = Nil]
    /\ exit' = [exit EXCEPT ![p] = "running"]
    /\ calls' = [calls EXCEPT ![p] = <<>>]
    /\ created' = [created EXCEPT ![p] = <<>>]
    /\ deleted' = [deleted EXCEPT ![p] = <<>>]
    /\ raised' = [raised EXCEPT ![p] = FALSE]
    /\ first' = [first EXCEPT ![p] = Nil]
    /\ acrs0' = [acrs0 EXCEPT ![p] = {}]
    /\ acrsBefore' = [acrsBefore EXCEPT ![p] = {}]
    /\ UNCHANGED remote

\* The same task is run again (the play is applied a second time).
Rerun(p) ==
    /\ pc[p] = "exited"
    /\ Begin(p, inp[p])
    /\ first' = [first EXCEPT ![p] = result[p]]
    /\ acrsBefore' = [acrsBefore EXCEPT ![p] = acrs0[p]]

\* utils.get_chap_user_id / get_pe_id / get_snapshot_id, called by main while
\* it builds create_acr's arguments (lines 283, 285, 286), outside any try:
\* no lookup for a null name, None for a name the array does not know.
ResolveId(p, here, next, op, name, onArray, field) ==
    /\ pc[p] = here
    /\ UNCHANGED <<remote, inp, ig_resp, vol_resp, acr_resp, created, deleted, history>>
    /\ IF is_null_or_empty(name)
       THEN /\ Goto(p, next)
            /\ UNCHANGED <<kw, calls, raised>>
       ELSE \E o \in CallOutcomes :
              /\ Issue(p, op, o)
              /\ IF o = "raises"
                 THEN Unhandled(p) /\ kw' = kw
                 ELSE /\ Goto(p, next)
                      /\ kw' = [kw EXCEPT ![p][field] =
                                  {r.id : r \in Lookup(onArray, name)}]

GetChapUserId(p) ==
    ResolveId(p, "get_chap_user_id", "get_pe_id", "chap_users.get",
              inp[p].chap_user, ChapOnArray, "chap_user_id")

GetPeId(p) ==
    ResolveId(p, "get_pe_id", "get_snapshot_id", "protocol_endpoints.get",
              inp[p].protocol_endpoint, PeOnArray, "pe_id")

GetSnapshotId(p) ==
    ResolveId(p, "get_snapshot_id", "create_acr", "snapshots.get",
              inp[p].snapshot, SnapOnArray, "snap_id")

\* main, lines 292-295: the triple decides between exit_json and fail_json.
Exit(p) ==
    /\ pc[p] = "returned"
    /\ pc' = [pc EXCEPT ![p] = "exited"]
    /\ exit' = [exit EXCEPT ![p] =
                  IF \E r \in result[p] : r.ok THEN "exit_json" ELSE "fail_json"]
    /\ UNCHANGED <<remote, locals, result, trace, history>>

\* -------------------------------------------------------------- create_acr
\* Lines 136-139: the triple of a missing required name, Nil when both are given.
CreatePrecondition(initiator_group, volume) ==
    IF is_null_or_empty(initiator_group) THEN Some(NoInitiatorGroupProvided)
    ELSE IF is_null_or_empty(volume) THEN Some(NoVolumeProvided)
    ELSE Nil

\* Mutant: any record of the volume counts as the one asked for.
MustCreateOnlyIfNone(acr, ig) == acr = Nil

\* Line 155: no record was found, or the one found is of another initiator group.
MustCreate(acr, ig) ==
    acr = Nil \/ \E a \in acr, g \in ig : a.initiator_group_id # g.id

\* Lines 151-154: the attributes the create call carries.
CreateParams(acr, kwargs) ==
    IF acr # Nil
    THEN remove_unchanged_or_null_args(CHOOSE a \in acr : TRUE, kwargs)
    ELSE remove_null_args(kwargs)

\* Mutant: create is as lenient as present.
ExistsResultLenient(state) == AlreadyPresent

\* Lines 160-164: a record of the initiator group exists already.
ExistsResult(state) == IF state = "present" THEN AlreadyPresent ELSE CannotCreate

\* Mutant: the create call is given the names, not the identifiers.
CreateArgsByName(ig, vol, params) ==
    [initiator_group_id |-> (CHOOSE g \in ig : TRUE).name,
     vol_id |-> (CHOOSE v \in vol : TRUE).name,
     params |-> params]

\* Lines 156-158: the arguments of the create call.
CreateArgs(ig, vol, params) ==
    [initiator_group_id |-> (CHOOSE g \in ig : TRUE).id,
     vol_id |-> (CHOOSE v \in vol : TRUE).id,
     params |-> params]

\* Mutant: create_acr without its except clause.
CreateRaisedUncaught(p) == Unhandled(p)

\* The except clause of create_acr (line 165) catches what a call raises.
CreateRaised(p) == Return(p, CreationFailed)

CreateAcrEnter(p) ==
    /\ pc[p] = "create_acr"
    /\ LET pre == CreatePrecondition(inp[p].initiator_group, inp[p].volume) IN
         IF pre # Nil
         THEN Return(p, CHOOSE t \in pre : TRUE)
         ELSE Goto(p, "initiator_groups.get")
    /\ UNCHANGED <<remote, locals, trace, history>>

\* Lines 143-145.
IgGet(p) ==
    /\ pc[p] = "initiator_groups.get"
    /\ UNCHANGED <<remote, inp, kw, vol_resp, acr_resp, created, deleted, history>>
    /\ \E o \in CallOutcomes :
         /\ Issue(p, "initiator_groups.get", o)
         /\ IF o = "raises"
            THEN CreateRaised(p) /\ ig_resp' = ig_resp
            ELSE LET resp == Lookup(IgOnArray, inp[p].initiator_group) IN
                   /\ ig_resp' = [ig_resp EXCEPT ![p] = resp]
                   /\ IF resp = Nil
                      THEN Return(p, InitiatorGroupNotPresent)
                      ELSE Goto(p, "volumes.get")

\* Lines 146-148.
VolGet(p) ==
    /\ pc[p] = "volumes.get"
    /\ UNCHANGED <<remote, inp, kw, ig_resp, acr_resp, created, deleted, history>>
    /\ \E o \in CallOutcomes :
         /\ Issue(p, "volumes.get", o)
         /\ IF o = "raises"
            THEN CreateRaised(p) /\ vol_resp' = vol_resp
            ELSE LET resp == Lookup(VolOnArray, inp[p].volume) IN
                   /\ vol_resp' = [vol_resp EXCEPT ![p] = resp]
                   /\ IF resp = Nil
                      THEN Return(p, VolumeNotPresent)
                      ELSE Goto(p, "access_control_records.get")

\* What access_control_records.get(vol_name=...) may answer: None, or one of
\* the volume's records.
AcrAnswers(volume) ==
    IF AcrsOfVolume(volume) = {} THEN {Nil} ELSE {Some(a) : a \in AcrsOfVolume(volume)}

\* Lines 150-155 and 160-164.
AcrGet(p) ==
    /\ pc[p] = "access_control_records.get"
    /\ UNCHANGED <<remote, inp, kw, ig_resp, vol_resp, created, deleted, history>>
    /\ \E o \in CallOutcomes :
         /\ Issue(p, "access_control_records.get", o)
         /\ IF o = "raises"
            THEN CreateRaised(p) /\ acr_resp' = acr_resp
            ELSE \E resp \in AcrAnswers(inp[p].volume) :
                   /\ acr_resp' = [acr_resp EXCEPT ![p] = resp]
                   /\ IF MustCreate(resp, ig_resp[p])
                      THEN Goto(p, "access_control_records.create")
                      ELSE Return(p, ExistsResult(inp[p].state))

\* Lines 156-159: the array stores the record, or the call raises.
\* Mutant: create is refused when the array already holds a record of the
\* volume and the initiator group (a check-and-create the code does not have).
AcrCreateChecked(p) ==
    /\ pc[p] = "access_control_records.create"
    /\ UNCHANGED <<locals, deleted, history>>
    /\ LET args == CreateArgs(ig_resp[p], vol_resp[p], CreateParams(acr_resp[p], kw[p])) IN
         /\ ~\E a \in acrs : /\ a.vol_id = args.vol_id
                             /\ a.initiator_group_id = args.initiator_group_id
         /\ created' = [created EXCEPT ![p] = Append(@, args)]
         /\ \E o \in CallOutcomes :
              /\ Issue(p, "access_control_records.create", o)
              /\ IF o = "raises"
                 THEN CreateRaised(p) /\ UNCHANGED remote
                 ELSE /\ nextId <= MaxIds
                      /\ acrs' = acrs \cup {NewAcr(nextId, args)}
                      /\ nextId' = nextId + 1
                      /\ Return(p, Created)

AcrCreate(p) ==
    /\ pc[p] = "access_control_records.create"
    /\ UNCHANGED <<locals, deleted, history>>
    /\ LET args == CreateArgs(ig_resp[p], vol_resp[p], CreateParams(acr_resp[p], kw[p])) IN
         /\ created' = [created EXCEPT ![p] = Append(@, args)]
         /\ \E o \in CallOutcomes :
              /\ Issue(p, "access_control_records.create", o)
              /\ IF o = "raises"
                 THEN CreateRaised(p) /\ UNCHANGED remote
                 ELSE /\ nextId <= MaxIds
                      /\ acrs' = acrs \cup {NewAcr(nextId, args)}
                      /\ nextId' = nextId + 1
                      /\ Return(p, Created)

\* -------------------------------------------------------------- delete_acr
\* Lines 173-174.
DeletePrecondition(volume) ==
    IF is_null_or_empty(volume) THEN Some(NoVolumeProvidedDelete) ELSE Nil

\* The except clause of delete_acr (line 187) catches what a call raises.
\* Mutant: the call that raised is issued once more before giving up.
DeleteRaisedRetryOnce(p) ==
    IF ~raised[p]
    THEN pc' = pc /\ UNCHANGED outcome
    ELSE Return(p, DeletionFailed)

DeleteRaised(p) == Return(p, DeletionFailed)

DeleteAcrEnter(p) ==
    /\ pc[p] = "delete_acr"
    /\ LET pre == DeletePrecondition(inp[p].volume) IN
         IF pre # Nil
         THEN Return(p, CHOOSE t \in pre : TRUE)
         ELSE Goto(p, "delete: volumes.get")
    /\ UNCHANGED <<remote, locals, trace, history>>

\* Lines 177-179.
DeleteVolGet(p) ==
    /\ pc[p] = "delete: volumes.get"
    /\ UNCHANGED <<remote, inp, kw, ig_resp, acr_resp, created, deleted, history>>
    /\ \E o \in CallOutcomes :
         /\ Issue(p, "volumes.get", o)
         /\ IF o = "raises"
            THEN DeleteRaised(p) /\ vol_resp' = vol_resp
            ELSE LET resp == Lookup(VolOnArray, inp[p].volume) IN
                   /\ vol_resp' = [vol_resp EXCEPT ![p] = resp]
                   /\ IF resp = Nil
                      THEN Return(p, VolumeNotPresentDelete)
                      ELSE Goto(p, "delete: access_control_records.get")

\* Line 182: a record was found.
MustDelete(acr) == acr # Nil

\* Lines 181-182 and 185-186.
DeleteAcrGet(p) ==
    /\ pc[p] = "delete: access_control_records.get"
    /\ UNCHANGED <<remote, inp, kw, ig_resp, vol_resp, created, deleted, history>>
    /\ \E o \in CallOutcomes :
         /\ Issue(p, "access_control_records.get", o)
         /\ IF o = "raises"
            THEN DeleteRaised(p) /\ acr_resp' = acr_resp
            ELSE \E resp \in AcrAnswers(inp[p].volume) :
                   /\ acr_resp' = [acr_resp EXCEPT ![p] = resp]
                   /\ IF MustDelete(resp)
                      THEN Goto(p, "access_control_records.delete")
                      ELSE Return(p, NotPresentDelete)

\* Line 183: the identifier the delete call is given.
DeleteArg(acr) == (CHOOSE a \in acr : TRUE).id

\* What the delete call may do (its contract: success / failure): besides
\* returning after the record is gone or raising, it may return a value that
\* says the record was not removed.
DeleteOutcomes == CallOutcomes \cup {"returns failure"}

\* Lines 183-184: the array drops the record, or the call raises; the value
\* the call returns is assigned to acr_resp and never looked at.
AcrDelete(p) ==
    /\ pc[p] = "access_control_records.delete"
    /\ UNCHANGED <<nextId, locals, created, history>>
    /\ deleted' = [deleted EXCEPT ![p] = Append(@, DeleteArg(acr_resp[p]))]
    /\ \E o \in DeleteOutcomes :
         /\ Issue(p, "access_control_records.delete", o)
         /\ IF o = "raises"
            THEN DeleteRaised(p) /\ acrs' = acrs
            ELSE /\ acrs' = IF o = "returns"
                            THEN {a \in acrs : a.id # DeleteArg(acr_resp[p])}
                            ELSE acrs
                 /\ Return(p, Deleted)

\* ---------------------------------------------------------- specification
Step(p) ==
    \/ Main(p)
    \/ Rerun(p)
    \/ ProcessEnd(p)
    \/ GetChapUserId(p)
    \/ GetPeId(p)
    \/ GetSnapshotId(p)
    \/ CreateAcrEnter(p)
    \/ IgGet(p)
    \/ VolGet(p)
    \/ AcrGet(p)
    \/ AcrCreate(p)
    \/ DeleteAcrEnter(p)
    \/ DeleteVolGet(p)
    \/ DeleteAcrGet(p)
    \/ AcrDelete(p)
    \/ Exit(p)

\* One caller: tasks run one after the other (section 5 of the design:
\* single-threaded, synchronous, one resource per invocation).
Next == Step(1)

Spec == Init /\ [][Next]_vars

\* Two callers at once: two plays (or two hosts of one play) each run one
\* task on the same volume; every remote call is a step of its own, so the
\* calls of the two runs interleave in any order.
ConcParams ==
    {[NoParams EXCEPT !.state = s, !.volume = "v1", !.initiator_group = g] :
        s \in {"create", "present"}, g \in {"ig1", "ig2"}}
    \cup {[NoParams EXCEPT !.state = "absent", !.volume = "v1"]}

MainConc(p) ==
    /\ pc[p] = "idle"
    /\ \E params \in ConcParams : Begin(p, params)
    /\ first' = [first EXCEPT ![p] = Nil]
    /\ acrsBefore' = [acrsBefore EXCEPT ![p] = {}]

StepConc(p) ==
    \/ MainConc(p)
    \/ GetChapUserId(p)
    \/ GetPeId(p)
    \/ GetSnapshotId(p)
    \/ CreateAcrEnter(p)
    \/ IgGet(p)
    \/ VolGet(p)
    \/ AcrGet(p)
    \/ AcrCreate(p)
    \/ DeleteAcrEnter(p)
    \/ DeleteVolGet(p)
    \/ DeleteAcrGet(p)
    \/ AcrDelete(p)
    \/ Exit(p)

NextConc == \E p \in Procs : StepConc(p)

SpecConc == Init /\ [][NextConc]_vars

\* One invocation: main runs one task and its process ends.  Every remote
\* call returns or raises, so a step that can be taken is taken.
StepRun(p) ==
    \/ Main(p)
    \/ GetChapUserId(p)
    \/ GetPeId(p)
    \/ GetSnapshotId(p)
    \/ CreateAcrEnter(p)
    \/ IgGet(p)
    \/ VolGet(p)
    \/ AcrGet(p)
    \/ AcrCreate(p)
    \/ DeleteAcrEnter(p)
    \/ DeleteVolGet(p)
    \/ DeleteAcrGet(p)
    \/ AcrDelete(p)
    \/ Exit(p)

NextRun == StepRun(1)

SpecRun == Init /\ [][NextRun]_vars /\ WF_vars(NextRun)

\* ------------------------------------------------------------ properties
\* The run's reconciler has handed back its triple.
Returned(p) == pc[p] \in {"returned", "exited"}
ResultOf(p) == CHOOSE r \in result[p] : TRUE
IsCreateTask(p) == inp[p].state \in {"create", "present"}
IsAbsentTask(p) == inp[p].state = "absent"
LastCall(p) == calls[p][Len(calls[p])]
Count(seq, x) == Cardinality({i \in 1..Len(seq) : seq[i] = x})
\* The ACRs the array held for the run's volume when the run started.
AcrsAtStart(p) == VolumeAcrs(acrs0[p], inp[p].volume)
BothResolve(p) ==
    inp[p].initiator_group \in IgOnArray /\ inp[p].volume \in VolOnArray
\* The one create call the run is to issue.
IssuedCreate(p) ==
    /\ Len(created[p]) = 1
    /\ Count(calls[p], "access_control_records.create") = 1
    /\ created[p][1].initiator_group_id = IdOf(inp[p].initiator_group)
    /\ created[p][1].vol_id = IdOf(inp[p].volume)

\* C1: every triple a run's reconciler returns, on whatever path, has
\* changed = false when ok = false.
C1_FailedNeverChanged ==
    \A p \in Procs : \A r \in result[p] : ~r.ok => ~r.changed

\* C1 witness: a create call was issued and raised, and the triple is a failure.
C1_Witness ==
    \E p \in Procs :
        /\ Returned(p) /\ raised[p] /\ created[p] # <<>>
        /\ ~ResultOf(p).ok /\ ~ResultOf(p).changed

\* C2: a present task applied a second time to the array the first run left
\* (the first run succeeded, no call of the second raised) returns ok = true,
\* changed = false.
C2_PresentTwiceUnchanged ==
    \A p \in Procs :
        ( /\ Returned(p) /\ inp[p].state = "present"
          /\ first[p] # Nil /\ (\A f \in first[p] : f.ok)
          /\ ~raised[p] )
        => ResultOf(p).ok /\ ~ResultOf(p).changed

\* C3: a task without a volume name, whatever its state, issues no remote
\* call at all and ends with ok = false, changed = false.
C3_MissingVolumeNoCall ==
    \A p \in Procs :
        (inp[p].state \in States /\ is_null_or_empty(inp[p].volume))
        => /\ calls[p] = <<>>
           /\ pc[p] # "crashed"
           /\ Returned(p) => (~ResultOf(p).ok /\ ~ResultOf(p).changed)

\* C4 as stated: an absent task on an array holding no ACR for the named
\* volume returns ok = true, changed = false and issues no delete.
C4_AbsentNoRecordAlwaysOk ==
    \A p \in Procs :
        (Returned(p) /\ IsAbsentTask(p) /\ AcrsAtStart(p) = {})
        => /\ ResultOf(p).ok /\ ~ResultOf(p).changed
           /\ deleted[p] = <<>>

\* C4 amended: an absent task whose volume name is given and is on the array,
\* on an array holding no ACR for that volume, none of its lookups raising,
\* returns ok = true, changed = false and issues no delete.
C4_AbsentNoRecordOk ==
    \A p \in Procs :
        ( /\ Returned(p) /\ IsAbsentTask(p) /\ AcrsAtStart(p) = {}
          /\ inp[p].volume \in VolOnArray /\ ~raised[p] )
        => /\ ResultOf(p).ok /\ ~ResultOf(p).changed
           /\ deleted[p] = <<>>
           /\ Count(calls[p], "access_control_records.delete") = 0

\* C4 witness: such a task has looked the record up and returned.
C4_Witness ==
    \E p \in Procs :
        /\ Returned(p) /\ IsAbsentTask(p) /\ AcrsAtStart(p) = {}
        /\ inp[p].volume \in VolOnArray /\ ~raised[p]
        /\ LastCall(p) = "access_control_records.get"
        /\ ResultOf(p) = NotPresentDelete

\* The volume's record exists and is bound to the initiator group asked for
\* (the data model has one record per volume: all the volume holds match).
RecordMatches(p) ==
    /\ AcrsAtStart(p) # {}
    /\ \A a \in AcrsAtStart(p) : a.initiator_group_id = IdOf(inp[p].initiator_group)

\* The volume's record exists and is bound to another initiator group.
RecordDiffers(p) ==
    /\ AcrsAtStart(p) # {}
    /\ \A a \in AcrsAtStart(p) : a.initiator_group_id # IdOf(inp[p].initiator_group)

BranchCalls ==
    {"initiator_groups.get", "volumes.get", "access_control_records.get",
     "access_control_records.create", "access_control_records.delete"}

\* C6: when a remote call inside the create / present branch raises, the run
\* returns (false, false, creation failed | reason); inside the absent branch
\* (false, false, deletion failed | reason); the exception never leaves main.
C6_BranchErrorsCaught ==
    \A p \in Procs :
        (raised[p] /\ LastCall(p) \in BranchCalls)
        => /\ Returned(p)
           /\ exit[p] # "traceback"
           /\ IsCreateTask(p) => ResultOf(p) = Triple(FALSE, FALSE, "creation failed | ex")
           /\ IsAbsentTask(p) => ResultOf(p) = Triple(FALSE, FALSE, "deletion failed | ex")

\* C6 witness: the create call itself raised and main got the failure triple.
C6_Witness ==
    \E p \in Procs :
        /\ raised[p] /\ LastCall(p) = "access_control_records.create"
        /\ pc[p] = "exited" /\ exit[p] = "fail_json"

\* C7: no failure of a run, a failing resolution lookup (chap user, protocol
\* endpoint, snapshot) included, leaves main as an exception: every run that
\* ends has its triple.
C7_NothingThrows ==
    \A p \in Procs : pc[p] # "crashed" /\ exit[p] # "traceback"

\* C8: a create / present task whose names resolve, on a volume whose ACR is
\* bound to another initiator group, issues one create call with the resolved
\* initiator group id and volume id, and (no call raising) returns
\* (true, true, created).
C8_OtherGroupCreates ==
    \A p \in Procs :
        (Returned(p) /\ IsCreateTask(p) /\ BothResolve(p) /\ RecordDiffers(p))
        => /\ (~raised[p] \/ LastCall(p) = "access_control_records.create")
                => IssuedCreate(p)
           /\ ~raised[p] => ResultOf(p) = Triple(TRUE, TRUE, "created")

\* C8 witness: the create task of the scenario: v1 is granted to ig1, ig2 is
\* asked for, and the record was created.
C8_Witness ==
    \E p \in Procs :
        /\ Returned(p) /\ inp[p].state = "create" /\ BothResolve(p) /\ RecordDiffers(p)
        /\ ~raised[p] /\ IssuedCreate(p) /\ ResultOf(p) = Created
        /\ \E a \in acrs : a.initiator_group_id = IdOf(inp[p].initiator_group)

\* C9: a create / present task whose names resolve, on a volume without ACR,
\* issues exactly one create call, with the resolved initiator group id and
\* volume id, and (no call raising) returns (true, true, created).
C9_NoRecordCreates ==
    \A p \in Procs :
        (Returned(p) /\ IsCreateTask(p) /\ BothResolve(p) /\ AcrsAtStart(p) = {})
        => /\ (~raised[p] \/ LastCall(p) = "access_control_records.create")
                => IssuedCreate(p)
           /\ ~raised[p] => ResultOf(p) = Triple(TRUE, TRUE, "created")

\* C9 witness: a present task created the first record of the volume.
C9_Witness ==
    \E p \in Procs :
        /\ Returned(p) /\ inp[p].state = "present" /\ BothResolve(p)
        /\ AcrsAtStart(p) = {} /\ ~raised[p]
        /\ IssuedCreate(p) /\ ResultOf(p) = Created
        /\ Cardinality(AcrsOfVolume(inp[p].volume)) = 1

\* C10: an absent task whose volume resolves, on a volume with an ACR, issues
\* exactly one delete call, given the id of the record its lookup returned,
\* and (no call raising) returns (true, true, deleted).
C10_AbsentDeletes ==
    \A p \in Procs :
        ( /\ Returned(p) /\ IsAbsentTask(p) /\ inp[p].volume \in VolOnArray
          /\ AcrsAtStart(p) # {} )
        => /\ (~raised[p] \/ LastCall(p) = "access_control_records.delete")
                => /\ Len(deleted[p]) = 1
                   /\ Count(calls[p], "access_control_records.delete") = 1
                   /\ \E a \in acr_resp[p] : a.id = deleted[p][1] /\ a \in AcrsAtStart(p)
           /\ ~raised[p] => ResultOf(p) = Triple(TRUE, TRUE, "deleted")

\* C10 witness: the record was looked up, deleted and is gone from the array.
C10_Witness ==
    \E p \in Procs :
        /\ Returned(p) /\ IsAbsentTask(p) /\ AcrsAtStart(p) # {} /\ ~raised[p]
        /\ Len(deleted[p]) = 1 /\ ResultOf(p) = Deleted
        /\ \A a \in acrs : a.id # deleted[p][1]

C12_AtMostOneMutation ==
    \A p \in Procs :
        /\ Count(calls[p], "access_control_records.create")
             + Count(calls[p], "access_control_records.delete") <= 1
        /\ Len(created[p]) + Len(deleted[p]) <= 1
        /\ Len(created[p]) = Count(calls[p], "access_control_records.create")
        /\ Len(deleted[p]) = Count(calls[p], "access_control_records.delete")
        /\ created[p] # <<>> => IsCreateTask(p)
        /\ deleted[p] # <<>> => IsAbsentTask(p)

\* C12 witness: a run that issued its one mutation, here a delete.
C12_Witness ==
    \E p \in Procs :
        /\ pc[p] = "exited" /\ IsAbsentTask(p)
        /\ Len(deleted[p]) = 1 /\ Len(created[p]) = 0

\* C13: an absent task that returned (true, true, deleted) and is applied
\* again at once (no call raising) returns ok = true, changed = false and
\* issues no delete call.  The run before did remove a record.
C13_AbsentTwiceUnchanged ==
    \A p \in Procs :
        ( /\ Returned(p) /\ IsAbsentTask(p)
          /\ first[p] = Some(Deleted) /\ acrs0[p] # acrsBefore[p]
          /\ ~raised[p] )
        => /\ ResultOf(p).ok /\ ~ResultOf(p).changed
           /\ deleted[p] = <<>>

\* The calls a run issued inside create_acr / delete_acr, in order.
BranchSeq(p) == SelectSeq(calls[p], LAMBDA c : c \in BranchCalls)
IsPrefix(s, t) == Len(s) <= Len(t) /\ \A i \in 1..Len(s) : s[i] = t[i]
CreateOrder ==
    << "initiator_groups.get", "volumes.get", "access_control_records.get",
       "access_control_records.create" >>

\* C15: the create / present branch calls initiator-group lookup, volume
\* lookup, ACR lookup and then create, in that order; an initiator group that
\* is not found gives (false, false, initiator group not present) with no
\* volume lookup, ACR lookup or create; a volume that is not found gives
\* (false, false, volume not present) with no ACR lookup or create; in the
\* absent branch a volume that is not found gives (false, false, volume not
\* present) with no ACR lookup or delete.
C15_LookupOrder ==
    \A p \in Procs :
        /\ IsCreateTask(p) => IsPrefix(BranchSeq(p), CreateOrder)
        /\ ( /\ Returned(p) /\ IsCreateTask(p) /\ ~raised[p] /\ BranchSeq(p) # <<>>
             /\ inp[p].initiator_group \notin IgOnArray )
           => /\ ResultOf(p) = Triple(FALSE, FALSE, "initiator group not present on array")
              /\ BranchSeq(p) = << "initiator_groups.get" >>
              /\ created[p] = <<>>
        /\ ( /\ Returned(p) /\ IsCreateTask(p) /\ ~raised[p] /\ BranchSeq(p) # <<>>
             /\ inp[p].initiator_group \in IgOnArray
             /\ inp[p].volume \notin VolOnArray )
           => /\ ResultOf(p) = Triple(FALSE, FALSE, "volume not present on array")
              /\ BranchSeq(p) = << "initiator_groups.get", "volumes.get" >>
              /\ created[p] = <<>>
        /\ ( /\ Returned(p) /\ IsAbsentTask(p) /\ ~raised[p] /\ BranchSeq(p) # <<>>
             /\ inp[p].volume \notin VolOnArray )
           => /\ ResultOf(p) = Triple(FALSE, FALSE, "volume not present on array")
              /\ BranchSeq(p) = << "volumes.get" >>
              /\ deleted[p] = <<>>

\* C15 witness: a create / present run whose initiator group resolved and
\* whose volume did not, stopped after the volume lookup.
C15_Witness ==
    \E p \in Procs :
        /\ Returned(p) /\ IsCreateTask(p) /\ ~raised[p]
        /\ inp[p].initiator_group \in IgOnArray
        /\ ~is_null_or_empty(inp[p].volume) /\ inp[p].volume \notin VolOnArray
        /\ BranchSeq(p) = << "initiator_groups.get", "volumes.get" >>
        /\ ResultOf(p) = VolumeNotPresent

\* The attribute values the array gives the record of a create call.
AttrsOf(args) == NewAcr(0, args).attrs
\* The create call of the run, had it carried every requested non-null attribute.
FullCreate(p) == [created[p][1] EXCEPT !.params = remove_null_args(kw[p])]

\* C17: when the volume's ACR is bound to another initiator group and create
\* is issued with the attribute delta, the new ACR has the attribute values
\* it would have had with the full non-null requested attribute set.
C17_DeltaSameAsFull ==
    \A p \in Procs :
        (created[p] # <<>> /\ BothResolve(p) /\ RecordDiffers(p))
        => AttrsOf(created[p][1]) = AttrsOf(FullCreate(p))

\* C18: for a single invoker, a run that returns changed = true left the
\* array's ACRs different from before (a record binding the volume to the
\* target initiator group was added, or the looked-up record was removed), and
\* a run that returns changed = false left them as they were.
C18_ChangedAgreesWithStore ==
    \A p \in Procs :
        Returned(p) =>
            /\ ResultOf(p).changed
               => /\ acrs # acrs0[p]
                  /\ \/ \E a \in acrs \ acrs0[p] :
                            /\ IsCreateTask(p)
                            /\ a.vol_id = IdOf(inp[p].volume)
                            /\ a.initiator_group_id = IdOf(inp[p].initiator_group)
                     \/ \E a \in acrs0[p] \ acrs :
                            /\ IsAbsentTask(p)
                            /\ a \in acr_resp[p]
            /\ ~ResultOf(p).changed => acrs = acrs0[p]

\* The records the array holds for a volume id and an initiator group id.
Bindings(vol_id, ig_id) ==
    {a \in acrs : a.vol_id = vol_id /\ a.initiator_group_id = ig_id}

\* C14: nothing on the client's side stands between a run's ACR lookup and
\* its mutation.  A run that decided to create can still issue create and
\* report (true, true, created), and one that decided to delete can still
\* issue delete and report (true, true, deleted), whatever the other run has
\* done to the array since the lookup; two runs that both created for the
\* same volume and initiator group both report changed = true and leave two
\* records of that volume and group.
C14_NoClientSideLock ==
    /\ \A p \in Procs :
         /\ pc[p] = "access_control_records.create"
            => ENABLED (AcrCreate(p) /\ result'[p] = Some(Created))
         /\ pc[p] = "access_control_records.delete"
            => ENABLED (AcrDelete(p) /\ result'[p] = Some(Deleted))
    /\ ( /\ \A p \in Procs : Returned(p) /\ ~raised[p] /\ Len(created[p]) = 1
         /\ created[1][1].vol_id = created[2][1].vol_id
         /\ created[1][1].initiator_group_id = created[2][1].initiator_group_id )
       => /\ \A p \in Procs : ResultOf(p) = Triple(TRUE, TRUE, "created")
          /\ Cardinality(Bindings(created[1][1].vol_id,
                                  created[1][1].initiator_group_id)) >= 2

\* C14 witness: the duplicate create.  Both runs looked the volume up while
\* it had no record, both created, and the array holds two records of the
\* same volume and initiator group.
C14_Witness ==
    /\ acrs0[1] = {} /\ acrs0[2] = {}
    /\ \A p \in Procs :
         /\ Returned(p) /\ IsCreateTask(p) /\ ~raised[p]
         /\ acr_resp[p] = Nil /\ Len(created[p]) = 1
         /\ ResultOf(p) = Created
    /\ inp[1].initiator_group = inp[2].initiator_group
    /\ Cardinality(Bindings(IdOf("v1"), IdOf(inp[1].initiator_group))) = 2

\* The double delete: both runs issued delete for the same record.
C14_DoubleDelete ==
    /\ \A p \in Procs : Returned(p) /\ IsAbsentTask(p) /\ Len(deleted[p]) = 1
    /\ deleted[1][1] = deleted[2][1]

\* The state of the invocation's state machine: Satisfied is the no-op
\* returns (already present, not present, cannot create as already present),
\* Mutated the successful create / delete, Failed every other end, the
\* traceback of an unhandled exception included.
Terminal == {"Satisfied", "Mutated", "Failed"}
Phase(p) ==
    CASE pc[p] = "idle" -> "Unresolved"
      [] pc[p] = "crashed" -> "Failed"
      [] pc[p] \in {"returned", "exited"} ->
           IF ResultOf(p).ok /\ ResultOf(p).changed THEN "Mutated"
           ELSE IF ResultOf(p).ok \/ ResultOf(p) = CannotCreate THEN "Satisfied"
           ELSE "Failed"
      [] OTHER -> "Resolving"

\* A step of the state machine: Unresolved to Resolving, Resolving to itself
\* or to a terminal state, a terminal state to itself only.
PhaseStep(p) ==
    \/ Phase(p)' = Phase(p)
    \/ Phase(p) = "Unresolved" /\ Phase(p)' = "Resolving"
    \/ Phase(p) = "Resolving" /\ Phase(p)' \in Terminal

NoCallRepeated(p) ==
    \A i, j \in 1..Len(calls[p]) : calls[p][i] = calls[p][j] => i = j

\* C16: an invocation goes from Unresolved to Resolving to one terminal state
\* of Satisfied, Mutated, Failed and never leaves it; no remote call is issued
\* twice and none is issued after a call raised; every remote call returning
\* or raising, the invocation ends.
C16_OneTransitionThenStop ==
    /\ [][\A p \in Procs : /\ PhaseStep(p)
                           /\ raised[p] => calls'[p] = calls[p]
                           /\ Phase(p) \in Terminal => remote' = remote]_vars
    /\ [](\A p \in Procs : NoCallRepeated(p))
    /\ <>(pc[1] \in {"exited", "crashed"})

\* C16 witness: a call of the invocation raised and the invocation ended as
\* Failed, having issued no call twice.
C16_Witness ==
    /\ pc[1] = "exited" /\ raised[1] /\ Phase(1) = "Failed"
    /\ Len(calls[1]) >= 2 /\ NoCallRepeated(1)

====
